---- MODULE Spec2Model ----
(***************************************************************************)
(* Model of the IPC network worker (net/src/ipc_net_worker.rs): the        *)
(* handshake state machine driven by tick, the outbound forwarding done by *)
(* receive, stop, and the construction of the worker from its config.  The *)
(* relay, the wire codec and the clock are the worker's collaborators;     *)
(* their results are inputs of the actions.  A second, independent part    *)
(* models the future returned by remove_entry                              *)
(* (core/src/dht/actions/remove_entry.rs) and its polling.                 *)
(***************************************************************************)
EXTENDS Integers, Sequences, FiniteSets, TLC

VARIABLES
    state,              \* IpcNetWorker.state: the connection-state label
    is_ready,           \* IpcNetWorker.is_ready: readiness already announced
    last_state_millis,  \* IpcNetWorker.last_state_millis
    alive,              \* FALSE once stop(self) has consumed the worker
    now,                \* the wall clock read by get_millis()
    chan,               \* ipc_relay_receiver: messages the relay delivered, not yet drained
    announced,          \* how many times the handler was given P2pReady
    last,               \* the owner's most recent call: its result and what it emitted
    remote,             \* the label of the remote process at the other end of the relay
    wire,               \* control messages the relay accepted, on their way to the remote
    firsts,             \* the control methods sent so far, in the order of their first send
    config,             \* the configuration blob handed to IpcNetWorker::new
    made,               \* what IpcNetWorker::new returned and did, once it was called
    ctx_state,          \* Context::state(): the global state, or None
    channel,            \* the action channel: actions dispatched, not yet reduced
    futs,               \* the RemoveEntryFuture values created so far
    polled              \* the most recent poll: the future polled and what poll did

workerVars == <<state, is_ready, last_state_millis, alive, now, chan, announced, last>>

coopVars == <<remote, wire>>

newVars == <<config, made>>

futVars == <<ctx_state, channel, futs, polled>>

vars == <<workerVars, coopVars, firsts, newVars, futVars>>

(* what the operations of a constructed worker never touch *)
aux == <<coopVars, firsts, newVars, futVars>>

-----------------------------------------------------------------------------
(* Bounds of the model *)

MaxPending == 2

(* How many messages may wait in the relay's outbound stream before the owner
   holds back its next receive *)
MaxWire == 2

(* How many futures remove_entry creates, and how many polls are made *)
MaxFutures == 2

MaxPolls == 3

(* The first clock reading.  get_millis() is wall-clock milliseconds, so it is
   already more than one probe interval past last_state_millis = 0. *)
StartMillis == 1000

(* Program constant: the probe cadence of priv_check_init *)
ProbeIntervalMillis == 500

(* The instants at which the owner may read the clock: the start, exactly one
   probe interval later, and one millisecond after that. *)
Instants ==
    {StartMillis, StartMillis + ProbeIntervalMillis, StartMillis + ProbeIntervalMillis + 1}

-----------------------------------------------------------------------------
(* Protocol messages and the control sub-protocol *)

Msg(k, m, s, c) == [kind |-> k, method |-> m, state |-> s, config |-> c]

Pong == Msg("pong", "", "", "")

P2pReady == Msg("p2pReady", "", "", "")

AppJson == Msg("json", "app", "", "")

StateMsg(l) == Msg("json", "state", l, "")

DefaultConfigMsg(c) == Msg("json", "defaultConfig", "", c)

RequestState == Msg("json", "requestState", "", "")

RequestDefaultConfig == Msg("json", "requestDefaultConfig", "", "")

SetConfig(c) == Msg("json", "setConfig", "", c)

ControlMethods ==
    {"requestState", "state", "requestDefaultConfig", "defaultConfig", "setConfig"}

(* ProtocolWrapper::try_from(&Protocol): partial; only a json message whose
   method is one of the control methods parses. *)
TryFromProtocol(data) ==
    IF data.kind = "json" /\ data.method \in ControlMethods
    THEN [ok |-> TRUE, tag |-> data.method, state |-> data.state, config |-> data.config]
    ELSE [ok |-> FALSE, tag |-> "", state |-> "", config |-> ""]

(* What the remote may put on the inbound channel *)
InboundMsgs ==
    {StateMsg("need_config"), StateMsg("ready"), StateMsg("starting"),
     DefaultConfigMsg("cfgA"), DefaultConfigMsg("cfgB"),
     RequestState, Pong}

(* What the owner may hand to receive *)
OwnerMsgs == {AppJson, Pong}

-----------------------------------------------------------------------------
(* The worker's operations as functions of the worker w: its fields, the
   inbound channel, and what the call has emitted so far (out: messages
   accepted by ipc_relay.send; up: messages passed to the handler). *)

Worker ==
    [state |-> state, is_ready |-> is_ready, last_state_millis |-> last_state_millis,
     chan |-> chan, out |-> <<>>, up |-> <<>>]

NoMsg == Msg("none", "", "", "")

Ok(w) == [w |-> w, res |-> "ok", fault |-> "none", drained |-> NoMsg]

Err(w, f) == [w |-> w, res |-> "err", fault |-> f, drained |-> NoMsg]

(* ipc_relay.send(msg)?: the message is accepted, or the send fails *)
relay_send(w, msg, f, fault) ==
    IF fault = f THEN Err(w, f) ELSE Ok([w EXCEPT !.out = Append(@, msg)])

(* (self.handler)(Ok(msg))?: the handler is invoked, and may fail *)
call_handler(w, msg, f, fault) ==
    LET w1 == [w EXCEPT !.up = Append(@, msg)]
    IN IF fault = f THEN Err(w1, f) ELSE Ok(w1)

(* Variants of the operations below, each changed the way a slip in the code
   would change it; the properties are rechecked against them. *)

(* probes once and never asks again *)
priv_check_init_once(w, t, fault) ==
    IF w.last_state_millis = 0 /\ t - w.last_state_millis > ProbeIntervalMillis
    THEN LET r == relay_send(w, RequestState, "probe", fault)
         IN IF r.res = "err" THEN r
            ELSE Ok([r.w EXCEPT !.last_state_millis = t])
    ELSE Ok(w)

(* probes at exactly the interval as well *)
priv_check_init_at_least(w, t, fault) ==
    IF t - w.last_state_millis >= ProbeIntervalMillis
    THEN LET r == relay_send(w, RequestState, "probe", fault)
         IN IF r.res = "err" THEN r
            ELSE Ok([r.w EXCEPT !.last_state_millis = t])
    ELSE Ok(w)

(* asks for the default config again with every probe while the label is
   need_config *)
priv_check_init_reask_config(w, t, fault) ==
    IF t - w.last_state_millis > ProbeIntervalMillis
    THEN LET r == relay_send(w, RequestState, "probe", fault)
             w1 == [r.w EXCEPT !.last_state_millis = t]
         IN IF r.res = "err" THEN r
            ELSE IF w.state = "need_config"
                 THEN Ok([w1 EXCEPT !.out = Append(@, RequestDefaultConfig)])
            ELSE Ok(w1)
    ELSE Ok(w)

priv_check_init(w, t, fault) ==
    IF t - w.last_state_millis > ProbeIntervalMillis
    THEN LET r == relay_send(w, RequestState, "probe", fault)
         IN IF r.res = "err" THEN r
            ELSE Ok([r.w EXCEPT !.last_state_millis = t])
    ELSE Ok(w)

(* records the label and forgets to ask for the default config *)
priv_handle_state_no_request(w, s, fault) == Ok([w EXCEPT !.state = s])

priv_handle_state(w, s, fault) ==
    LET w1 == [w EXCEPT !.state = s]
    IN IF w1.state = "need_config"
       THEN relay_send(w1, RequestDefaultConfig, "ctrl", fault)
       ELSE Ok(w1)

(* tests the label against the wrong value *)
priv_handle_default_config_wrong_label(w, c, fault) ==
    IF w.state = "ready"
    THEN relay_send(w, SetConfig(c), "ctrl", fault)
    ELSE Ok(w)

(* answers every defaultConfig, whatever the label *)
priv_handle_default_config_any_label(w, c, fault) ==
    relay_send(w, SetConfig(c), "ctrl", fault)

priv_handle_default_config(w, c, fault) ==
    IF w.state = "need_config"
    THEN relay_send(w, SetConfig(c), "ctrl", fault)
    ELSE Ok(w)

(* treats an inbound requestDefaultConfig as a reason to ask for the config *)
interpret_request_echo(w, data, fault) ==
    LET wrap == TryFromProtocol(data)
    IN IF wrap.ok /\ wrap.tag = "state" THEN priv_handle_state(w, wrap.state, fault)
       ELSE IF wrap.ok /\ wrap.tag = "defaultConfig"
            THEN priv_handle_default_config(w, wrap.config, fault)
       ELSE IF wrap.ok /\ wrap.tag = "requestDefaultConfig"
            THEN relay_send(w, RequestDefaultConfig, "ctrl", fault)
       ELSE Ok(w)

(* tick, lines 64-74: the control interpretation of a drained message *)
interpret(w, data, fault) ==
    LET wrap == TryFromProtocol(data)
    IN IF wrap.ok /\ wrap.tag = "state" THEN priv_handle_state(w, wrap.state, fault)
       ELSE IF wrap.ok /\ wrap.tag = "defaultConfig"
            THEN priv_handle_default_config(w, wrap.config, fault)
       ELSE Ok(w)

(* announces without recording that it did *)
announce_no_flag(w, fault) ==
    IF ~w.is_ready /\ w.state = "ready"
    THEN call_handler(w, P2pReady, "ready_handler", fault)
    ELSE Ok(w)

(* re-arms the announcement when the label is not ready *)
announce_rearm(w, fault) ==
    IF w.state # "ready" THEN Ok([w EXCEPT !.is_ready = FALSE])
    ELSE IF ~w.is_ready
    THEN call_handler([w EXCEPT !.is_ready = TRUE], P2pReady, "ready_handler", fault)
    ELSE Ok(w)

(* tick, lines 78-81: the one-time readiness announcement *)
announce(w, fault) ==
    IF ~w.is_ready /\ w.state = "ready"
    THEN call_handler([w EXCEPT !.is_ready = TRUE], P2pReady, "ready_handler", fault)
    ELSE Ok(w)

(* announces readiness before forwarding the raw message *)
drain_announce_first(w, fault) ==
    IF w.chan # <<>>
    THEN LET data == Head(w.chan)
             w1 == [w EXCEPT !.chan = Tail(@)]
             r1 == interpret(w1, data, fault)
             r2 == announce(r1.w, fault)
             r3 == call_handler(r2.w, data, "handler", fault)
             r == IF r1.res = "err" THEN r1 ELSE IF r2.res = "err" THEN r2 ELSE r3
         IN [r EXCEPT !.drained = data]
    ELSE Ok(w)

(* keeps recognized control messages to itself *)
drain_hide_control(w, fault) ==
    IF w.chan # <<>>
    THEN LET data == Head(w.chan)
             w1 == [w EXCEPT !.chan = Tail(@)]
             r1 == interpret(w1, data, fault)
             r2 == IF TryFromProtocol(data).ok THEN Ok(r1.w)
                   ELSE call_handler(r1.w, data, "handler", fault)
             r3 == announce(r2.w, fault)
             r == IF r1.res = "err" THEN r1 ELSE IF r2.res = "err" THEN r2 ELSE r3
         IN [r EXCEPT !.drained = data]
    ELSE Ok(w)

(* keeps draining while a second message is pending *)
drain_pending(w, fault) ==
    LET one(w0) ==
            LET data == Head(w0.chan)
                w1 == [w0 EXCEPT !.chan = Tail(@)]
                r1 == interpret(w1, data, fault)
                r2 == call_handler(r1.w, data, "handler", fault)
                r3 == announce(r2.w, fault)
            IN IF r1.res = "err" THEN r1 ELSE IF r2.res = "err" THEN r2 ELSE r3
    IN IF w.chan # <<>>
       THEN LET ra == one(w)
                rb == IF ra.res = "err" \/ ra.w.chan = <<>> THEN ra ELSE one(ra.w)
            IN [rb EXCEPT !.drained = Head(w.chan)]
       ELSE Ok(w)

(* hands the raw message to the handler before interpreting it *)
drain_forward_first(w, fault) ==
    IF w.chan # <<>>
    THEN LET data == Head(w.chan)
             w1 == [w EXCEPT !.chan = Tail(@)]
             r2 == call_handler(w1, data, "handler", fault)
             r1 == interpret(r2.w, data, fault)
             r3 == announce(r1.w, fault)
             r == IF r2.res = "err" THEN r2 ELSE IF r1.res = "err" THEN r1 ELSE r3
         IN [r EXCEPT !.drained = data]
    ELSE Ok(w)

(* tick, lines 61-82: drain at most one message and process it *)
drain(w, fault) ==
    IF w.chan # <<>>
    THEN LET data == Head(w.chan)
             w1 == [w EXCEPT !.chan = Tail(@)]
             r1 == interpret(w1, data, fault)
             r2 == call_handler(r1.w, data, "handler", fault)
             r3 == announce(r2.w, fault)
             r == IF r1.res = "err" THEN r1 ELSE IF r2.res = "err" THEN r2 ELSE r3
         IN [r EXCEPT !.drained = data]
    ELSE Ok(w)

(* probes whatever the label *)
tick_probe_when_ready(w, t, relayDid, fault) ==
    LET r0 == priv_check_init(w, t, fault)
        r1 == drain(r0.w, fault)
        did == relayDid \/ r0.w.chan # <<>>
    IN IF r0.res = "err" THEN r0
       ELSE IF fault = "relay" THEN Err(r0.w, "relay")
       ELSE IF r1.res = "err" THEN r1
       ELSE [r1 EXCEPT !.res = IF did THEN "ok_true" ELSE "ok_false"]

(* reports work whenever it is called *)
tick_always_did(w, t, relayDid, fault) ==
    LET r0 == IF w.state # "ready" THEN priv_check_init(w, t, fault) ELSE Ok(w)
        r1 == drain(r0.w, fault)
    IN IF r0.res = "err" THEN r0
       ELSE IF fault = "relay" THEN Err(r0.w, "relay")
       ELSE IF r1.res = "err" THEN r1
       ELSE [r1 EXCEPT !.res = "ok_true"]

(* drains and processes the pending message before it looks at the probe *)
tick_drain_first(w, t, relayDid, fault) ==
    LET r1 == drain(w, fault)
        r0 == IF r1.w.state # "ready" THEN priv_check_init(r1.w, t, fault) ELSE Ok(r1.w)
        did == relayDid \/ w.chan # <<>>
    IN IF r1.res = "err" THEN r1
       ELSE IF r0.res = "err" THEN [r0 EXCEPT !.drained = r1.drained]
       ELSE IF fault = "relay" THEN [Err(r0.w, "relay") EXCEPT !.drained = r1.drained]
       ELSE [r0 EXCEPT !.res = IF did THEN "ok_true" ELSE "ok_false",
                       !.drained = r1.drained]

(* tick: relayDid is what ipc_relay.tick() reports; fault names the one step
   that fails in this call, if that step is reached. *)
tick(w, t, relayDid, fault) ==
    LET r0 == IF w.state # "ready" THEN priv_check_init(w, t, fault) ELSE Ok(w)
        r1 == drain(r0.w, fault)
        did == relayDid \/ r0.w.chan # <<>>
    IN IF r0.res = "err" THEN r0
       ELSE IF fault = "relay" THEN Err(r0.w, "relay")
       ELSE IF r1.res = "err" THEN r1
       ELSE [r1 EXCEPT !.res = IF did THEN "ok_true" ELSE "ok_false"]

(* tries the send a second time when it fails, and still reports the failure *)
receive_resend(w, data, fault) ==
    LET r == relay_send(w, data, "send", fault)
    IN IF r.res = "err" THEN Err([w EXCEPT !.out = Append(@, data)], "send") ELSE r

(* forwards JSON messages only *)
receive_json_only(w, data, fault) ==
    IF data.kind = "json" THEN relay_send(w, data, "send", fault) ELSE Ok(w)

receive(w, data, fault) == relay_send(w, data, "send", fault)

-----------------------------------------------------------------------------
(* Construction: IpcNetWorker::new and priv_new *)

(* serde_json values as far as new looks at them.  Indexing a value by a key
   it does not have, or indexing a value that is no object, gives Null. *)
JNull == [t |-> "null", v |-> ""]

JStr(x) == [t |-> "string", v |-> x]

JNum == [t |-> "number", v |-> "42"]

JBool(b) == [t |-> "bool", v |-> b]

JsonVals ==
    {JNull, JStr("zmq"), JStr("tcp://127.0.0.1:0"), JNum, JBool("true"), JBool("false")}

(* the text handed to new: one that serde_json::from_str rejects, or a value
   with these three members *)
Unparsable ==
    [parses |-> FALSE, socketType |-> JNull, ipcUri |-> JNull, blockConnect |-> JNull]

Configs ==
    {Unparsable} \cup
    [parses : {TRUE}, socketType : JsonVals, ipcUri : JsonVals, blockConnect : JsonVals]

(* the config of the test it_ipc_networker_zmq_create *)
ZmqConfig ==
    [parses |-> TRUE, socketType |-> JStr("zmq"), ipcUri |-> JStr("tcp://127.0.0.1:0"),
     blockConnect |-> JBool("false")]

None == [some |-> FALSE, v |-> ""]

Some(x) == [some |-> TRUE, v |-> x]

as_str(j) == IF j.t = "string" THEN Some(j.v) ELSE None

as_bool(j) == IF j.t = "bool" THEN Some(j.v) ELSE None

(* where the factory closure of new may fail: creating the socket, connecting
   it, creating the client *)
FactoryOutcomes == {"ok", "socket", "connect", "client"}

NoFields == [state |-> "", is_ready |-> FALSE, last_state_millis |-> -1]

(* the result of a construction: the error kind or the new worker's fields,
   whether the factory was invoked, and how far the socket got *)
Made(res, kind, factory, socket, uri, block, w) ==
    [res |-> res, kind |-> kind, factory |-> factory, socket |-> socket,
     uri |-> uri, block_connect |-> block, w |-> w]

NotMade == Made("none", "", FALSE, "none", "", "", NoFields)

(* the factory closure of new, lines 116-121 *)
zmq_factory(uri, block_connect, outcome) ==
    IF outcome = "socket" THEN Made("err", "transport", TRUE, "none", uri, block_connect, NoFields)
    ELSE IF outcome = "connect"
         THEN Made("err", "transport", TRUE, "created", uri, block_connect, NoFields)
    ELSE IF outcome = "client"
         THEN Made("err", "transport", TRUE, "connected", uri, block_connect, NoFields)
    ELSE Made("ok", "", TRUE, "connected", uri, block_connect, NoFields)

(* NetConnectionRelay::new(handler, factory)?: the relay runs the factory to
   create its worker *)
relay_new(uri, block_connect, outcome) == zmq_factory(uri, block_connect, outcome)

priv_new(uri, block_connect, outcome) ==
    LET ipc_relay == relay_new(uri, block_connect, outcome)
    IN IF ipc_relay.res = "err" THEN ipc_relay
       ELSE [ipc_relay EXCEPT
                !.w = [state |-> "undefined", is_ready |-> FALSE, last_state_millis |-> 0]]

ConfigError == Made("err", "config", FALSE, "none", "", "", NoFields)

(* accepts any transport type *)
new_any_socket_type(cfg, outcome) ==
    IF ~cfg.parses THEN Made("err", "parse", FALSE, "none", "", "", NoFields)
    ELSE IF ~as_str(cfg.ipcUri).some THEN ConfigError
    ELSE LET uri == as_str(cfg.ipcUri).v
             b == as_bool(cfg.blockConnect)
             block_connect == IF b.some THEN b.v ELSE "false"
         IN priv_new(uri, block_connect, outcome)

new(cfg, outcome) ==
    IF ~cfg.parses THEN Made("err", "parse", FALSE, "none", "", "", NoFields)
    ELSE IF cfg.socketType # JStr("zmq") THEN ConfigError
    ELSE IF ~as_str(cfg.ipcUri).some THEN ConfigError
    ELSE LET uri == as_str(cfg.ipcUri).v
             b == as_bool(cfg.blockConnect)
             block_connect == IF b.some THEN b.v ELSE "false"
         IN priv_new(uri, block_connect, outcome)

-----------------------------------------------------------------------------
(* remove_entry and RemoveEntryFuture::poll (core/src/dht/actions) *)

Addresses == {"QmA", "QmB"}

(* ActionWrapper::new(Action::RemoveEntry(address)): the action with an id of
   its own *)
ActionWrapper(address, id) == [action |-> "RemoveEntry", address |-> address, id |-> id]

(* what the reducer may record for an action: Ok, or one of two errors *)
ActionResults == {"ok", "errA", "errB"}

(* Context::state(): None until the instance has set the state, then the
   state, of which poll reads dht().actions(), a map from actions to results,
   held as the set of its entries *)
NoState == [some |-> FALSE, actions |-> {}]

SomeState(actions) == [some |-> TRUE, actions |-> actions]

(* HashMap::get *)
get(map, key) ==
    IF \E e \in map : e.key = key
    THEN Some((CHOOSE e \in map : e.key = key).res)
    ELSE None

(* what a poll returns and does: the result, whether it asked to be woken
   again, and the global state as the call leaves it *)
Polled(res, woke, ctx) == [res |-> res, woke |-> woke, ctx |-> ctx]

(* takes any recorded result for success *)
poll_any_result(self, ctx) ==
    IF ctx.some
    THEN IF get(ctx.actions, self.action).some
         THEN Polled("ready", TRUE, ctx)
         ELSE Polled("pending", TRUE, ctx)
    ELSE Polled("pending", TRUE, ctx)

poll(self, ctx) ==
    IF ctx.some
    THEN LET found == get(ctx.actions, self.action)
         IN IF found.some /\ found.v = "ok" THEN Polled("ready", TRUE, ctx)
            ELSE IF found.some THEN Polled(found.v, TRUE, ctx)
            ELSE Polled("pending", TRUE, ctx)
    ELSE Polled("pending", TRUE, ctx)

-----------------------------------------------------------------------------
(* The state machine *)

Faults == {"none", "probe", "relay", "ctrl", "handler", "ready_handler"}

(* what ipc_relay.tick() may report when it does not fail: whether the relay
   did any work of its own *)
RelayTickResults == BOOLEAN

Idle(op) ==
    [op |-> op, res |-> "ok", fault |-> "none", relay |-> FALSE, arg |-> NoMsg,
     drained |-> NoMsg, out |-> <<>>, up |-> <<>>]

Has(seq, m) == \E i \in 1..Len(seq) : seq[i] = m

Count(seq, m) == Cardinality({i \in 1..Len(seq) : seq[i] = m})

NoPoll == [fut |-> 0, res |-> "none", n |-> 0, wakes |-> 0]

(* no future exists and the global state is not set yet *)
NoFutures ==
    /\ ctx_state = NoState
    /\ channel = <<>>
    /\ futs = <<>>
    /\ polled = NoPoll

Init ==
    /\ state = "undefined"
    /\ is_ready = FALSE
    /\ last_state_millis = 0
    /\ alive = TRUE
    /\ now = StartMillis
    /\ chan = <<>>
    /\ announced = 0
    /\ last = Idle("new")
    /\ remote = "need_config"
    /\ wire = <<>>
    /\ firsts = <<>>
    /\ config = ZmqConfig
    /\ made = new(ZmqConfig, "ok")
    /\ NoFutures

Install(w) ==
    /\ state' = w.state
    /\ is_ready' = w.is_ready
    /\ last_state_millis' = w.last_state_millis
    /\ chan' = w.chan
    /\ announced' = announced + Count(w.up, P2pReady)

(* the wall clock advances *)
Advance ==
    /\ alive
    /\ \E t \in Instants :
           /\ t > now
           /\ \A u \in Instants : u > now => t <= u
           /\ now' = t
    /\ last' = Idle("advance")
    /\ UNCHANGED <<state, is_ready, last_state_millis, alive, chan, announced>>
    /\ UNCHANGED aux

(* the relay puts a message from the remote on the inbound channel *)
DeliverFrom(msgs) ==
    \E m \in msgs :
        /\ alive
        /\ Len(chan) < MaxPending
        /\ chan' = Append(chan, m)
        /\ last' = Idle("deliver")
        /\ UNCHANGED <<state, is_ready, last_state_millis, alive, now, announced>>
        /\ UNCHANGED aux

Deliver == DeliverFrom(InboundMsgs)

(* one call of tick; faults are the steps that may fail in this call *)
TickCall(faults) ==
    \E relayDid \in RelayTickResults, fault \in faults :
        \E r \in {tick(Worker, now, relayDid, fault)} :
           /\ alive
           /\ fault \in {"none", r.fault}
           /\ Install(r.w)
           /\ last' = [op |-> "tick", res |-> r.res, fault |-> r.fault,
                       relay |-> relayDid /\ r.fault \notin {"probe", "relay"},
                       arg |-> NoMsg, drained |-> r.drained,
                       out |-> r.w.out, up |-> r.w.up]
           /\ UNCHANGED <<alive, now>>

(* the owner calls tick *)
TickWith(faults) == TickCall(faults) /\ UNCHANGED aux

Tick == TickWith(Faults)

(* one call of receive *)
ReceiveCall ==
    \E data \in OwnerMsgs, fault \in {"none", "send"} :
        \E r \in {receive(Worker, data, fault)} :
           /\ alive
           /\ Install(r.w)
           /\ last' = [op |-> "receive", res |-> r.res, fault |-> r.fault,
                       relay |-> FALSE, arg |-> data, drained |-> NoMsg,
                       out |-> r.w.out, up |-> r.w.up]
           /\ UNCHANGED <<alive, now>>

(* the owner calls receive *)
Receive == ReceiveCall /\ UNCHANGED aux

Stop ==
    \E fault \in {"none", "stop"} :
        /\ alive
        /\ alive' = FALSE
        /\ last' = [Idle("stop") EXCEPT !.res = IF fault = "stop" THEN "err" ELSE "ok",
                                        !.fault = fault]
        /\ UNCHANGED <<state, is_ready, last_state_millis, now, chan, announced>>
        /\ UNCHANGED aux

Next == Advance \/ Deliver \/ Tick \/ Receive \/ Stop

Spec == Init /\ [][Next]_vars

(* Construction.  Before new is called there is no worker; new is handed any
   of the configs, and the factory, if it gets to run, ends in any of its
   outcomes. *)
NewInit ==
    /\ config \in Configs
    /\ made = NotMade
    /\ state = ""
    /\ is_ready = FALSE
    /\ last_state_millis = -1
    /\ alive = FALSE
    /\ now = StartMillis
    /\ chan = <<>>
    /\ announced = 0
    /\ last = Idle("none")
    /\ remote = "need_config"
    /\ wire = <<>>
    /\ firsts = <<>>
    /\ NoFutures

New ==
    \E outcome \in FactoryOutcomes :
        \E r \in {new(config, outcome)} :
           /\ made = NotMade
           /\ made' = r
           /\ alive' = (r.res = "ok")
           /\ state' = r.w.state
           /\ is_ready' = r.w.is_ready
           /\ last_state_millis' = r.w.last_state_millis
           /\ last' = [Idle("new") EXCEPT !.res = r.res]
           /\ UNCHANGED <<now, chan, announced, config, coopVars, firsts, futVars>>

NewSpec == NewInit /\ [][New]_vars

(* The run of C10: the owner keeps calling tick, the clock keeps advancing, no
   call fails, and the remote never reports ready (it may stay silent or send
   anything else). *)
TickOk == TickWith({"none"})

DeliverUnready == DeliverFrom(InboundMsgs \ {StateMsg("ready")})

UnansweredNext == Advance \/ DeliverUnready \/ TickOk

UnansweredSpec ==
    Init /\ [][UnansweredNext]_vars /\ WF_vars(TickOk) /\ WF_vars(Advance)

(* The run of C11: as above, and the remote never sends a defaultConfig
   report either. *)
DeliverNoConfig ==
    DeliverFrom({StateMsg("need_config"), StateMsg("starting"), RequestState, Pong})

NoConfigNext == Advance \/ DeliverNoConfig \/ TickOk

NoConfigSpec ==
    Init /\ [][NoConfigNext]_vars /\ WF_vars(TickOk) /\ WF_vars(Advance)

(* The run of C12: no call fails, and the remote is cooperative.  The relay
   carries every control message the worker sends to the remote, in order;
   the remote answers requestState with a state report of its current label,
   requestDefaultConfig with a defaultConfig report, and on setConfig it
   becomes ready and reports it. *)
CoopTick ==
    /\ TickCall({"none"})
    /\ wire' = wire \o last'.out
    /\ UNCHANGED <<remote, firsts, newVars, futVars>>

RemoteAnswers ==
    /\ alive
    /\ wire # <<>>
    /\ Len(chan) < MaxPending
    /\ wire' = Tail(wire)
    /\ \E answer \in
           IF Head(wire) = RequestState THEN {<<StateMsg(remote)>>}
           ELSE IF Head(wire) = RequestDefaultConfig
                THEN {<<DefaultConfigMsg("cfgA")>>, <<DefaultConfigMsg("cfgB")>>}
           ELSE IF Head(wire).method = "setConfig" THEN {<<StateMsg("ready")>>}
           ELSE {<<>>} :
           chan' = chan \o answer
    /\ remote' = IF Head(wire).method = "setConfig" THEN "ready" ELSE remote
    /\ last' = Idle("deliver")
    /\ UNCHANGED <<state, is_ready, last_state_millis, alive, now, announced>>
    /\ UNCHANGED <<firsts, newVars, futVars>>

CoopNext == Advance \/ CoopTick \/ RemoteAnswers

CoopSpec ==
    Init /\ [][CoopNext]_vars /\ WF_vars(CoopTick) /\ WF_vars(RemoteAnswers)

(* The run of C16: the worker's ticks, with any fault, against the reports of
   the handshake and pongs arriving in any order; firsts notes each control method when the relay first accepts it,
   and the first failed attempt to send requestDefaultConfig. *)
Attempts(l) ==
    [i \in 1..Len(l.out) |-> l.out[i].method] \o
    (IF l.fault = "ctrl" /\ l.drained.method = "state"
     THEN <<"requestDefaultConfig failed">> ELSE <<>>)

RECURSIVE NoteFirsts(_, _)
NoteFirsts(f, methods) ==
    IF methods = <<>> THEN f
    ELSE IF Has(f, Head(methods)) THEN NoteFirsts(f, Tail(methods))
    ELSE NoteFirsts(Append(f, Head(methods)), Tail(methods))

OrderTick ==
    /\ TickCall(Faults)
    /\ firsts' = NoteFirsts(firsts, Attempts(last'))
    /\ UNCHANGED <<coopVars, newVars, futVars>>

DeliverHandshake ==
    DeliverFrom({StateMsg("need_config"), StateMsg("ready"), DefaultConfigMsg("cfgA"), Pong})

OrderNext == Advance \/ DeliverHandshake \/ OrderTick

OrderSpec == Init /\ [][OrderNext]_vars

(* The run of C18: ticks with any fault and receives, against inbound traffic
   of every kind: the reports, the three requests sent back at the worker,
   pongs and JSON that is no control message. *)
EveryKind ==
    {StateMsg("need_config"), StateMsg("ready"), DefaultConfigMsg("cfgA"),
     RequestState, RequestDefaultConfig, SetConfig("cfgA"), Pong, AppJson}

DeliverEveryKind == DeliverFrom(EveryKind)

EveryKindNext == Advance \/ DeliverEveryKind \/ Tick \/ Receive

EveryKindSpec == Init /\ [][EveryKindNext]_vars

(* The futures of remove_entry.  Callers create futures, the instance sets the
   global state, the reducer takes dispatched actions off the channel and
   records a result for each, and the executor polls the unresolved futures,
   all in any order. *)
RemoveEntry ==
    \E address \in Addresses :
        \E action_wrapper \in {ActionWrapper(address, Len(futs) + 1)} :
           /\ Len(futs) < MaxFutures
           /\ channel' = Append(channel, action_wrapper)
           /\ futs' = Append(futs, [action |-> action_wrapper, resolved |-> "no"])
           /\ UNCHANGED <<ctx_state, polled>>
           /\ UNCHANGED <<workerVars, coopVars, firsts, newVars>>

SetState ==
    /\ ~ctx_state.some
    /\ ctx_state' = SomeState({})
    /\ UNCHANGED <<channel, futs, polled>>
    /\ UNCHANGED <<workerVars, coopVars, firsts, newVars>>

Reduce ==
    \E res \in ActionResults :
        /\ ctx_state.some
        /\ channel # <<>>
        /\ channel' = Tail(channel)
        /\ ctx_state' =
               SomeState(ctx_state.actions \cup {[key |-> Head(channel), res |-> res]})
        /\ UNCHANGED <<futs, polled>>
        /\ UNCHANGED <<workerVars, coopVars, firsts, newVars>>

Poll ==
    \E i \in 1..Len(futs) :
        \E r \in {poll(futs[i], ctx_state)} :
           /\ futs[i].resolved = "no"
           /\ polled.n < MaxPolls
           /\ ctx_state' = r.ctx
           /\ futs' = [futs EXCEPT ![i].resolved = IF r.res = "pending" THEN "no" ELSE r.res]
           /\ polled' = [fut |-> i, res |-> r.res, n |-> polled.n + 1,
                         wakes |-> polled.wakes + (IF r.woke THEN 1 ELSE 0)]
           /\ UNCHANGED channel
           /\ UNCHANGED <<workerVars, coopVars, firsts, newVars>>

FutureNext == RemoveEntry \/ SetState \/ Reduce \/ Poll

FutureSpec == Init /\ [][FutureNext]_vars

(* The run of C15: as the run of C12 without its fairness, and the owner also
   calls receive; what the relay accepts joins the outbound stream, and the
   remote takes the owner's messages without answering. *)
OwnerReceive ==
    /\ Len(wire) < MaxWire
    /\ ReceiveCall
    /\ wire' = wire \o last'.out
    /\ UNCHANGED <<remote, firsts, newVars, futVars>>

OwnerNext == CoopNext \/ OwnerReceive

OwnerSpec == Init /\ [][OwnerNext]_vars

-----------------------------------------------------------------------------
(* Observations used by the properties *)

IsTick(l) == l.op = "tick"

Completed(l) == l.res # "err"

IsDefaultConfig(m) == m.kind = "json" /\ m.method = "defaultConfig"

(* the messages of seq other than the synthetic readiness event *)
RECURSIVE Raw(_)
Raw(seq) ==
    IF seq = <<>> THEN <<>>
    ELSE IF Head(seq) = P2pReady THEN Raw(Tail(seq))
    ELSE <<Head(seq)>> \o Raw(Tail(seq))

(* the setConfig messages of seq *)
RECURSIVE SetConfigs(_)
SetConfigs(seq) ==
    IF seq = <<>> THEN <<>>
    ELSE IF Head(seq).method = "setConfig" THEN <<Head(seq)>> \o SetConfigs(Tail(seq))
    ELSE SetConfigs(Tail(seq))

-----------------------------------------------------------------------------
(* C1: over any sequence of ticks, receives and inbound messages, the handler
   is given the readiness event P2pReady at most once in the worker's
   lifetime. *)
C1_ReadyAtMostOnce == announced <= 1

(* a second `state: ready` report is drained after the announcement and is
   forwarded alone *)
C1_Witness ==
    /\ IsTick(last) /\ Completed(last)
    /\ announced = 1
    /\ last.drained = StateMsg("ready")
    /\ last.up = <<StateMsg("ready")>>

(* C2: a tick that returns Ok and drains a `state: ready` report while
   readiness has not been announced hands the handler the raw report and then,
   in the same call, P2pReady; and every completed tick that drained a message
   and leaves the label `ready` leaves the readiness event emitted exactly
   once. *)
C2_ReadyInSameTick ==
    [][ (IsTick(last') /\ Completed(last') /\ last'.drained # NoMsg) =>
           /\ (last'.drained = StateMsg("ready") /\ ~is_ready) =>
                  /\ last'.up = <<StateMsg("ready"), P2pReady>>
                  /\ is_ready'
           /\ state' = "ready" => (is_ready' /\ announced' = 1)
           /\ Has(last'.up, P2pReady) =>
                  last'.up = <<last'.drained, P2pReady>> ]_vars

C2_Witness ==
    /\ IsTick(last) /\ Completed(last)
    /\ last.up = <<StateMsg("ready"), P2pReady>>
    /\ state = "ready" /\ is_ready /\ announced = 1

(* C3: a tick that drains a `state: need_config` report and returns Ok has
   set the label to need_config and queued exactly one requestDefaultConfig;
   a tick that drains anything else queues none. *)
C3_NeedConfigRequestsDefault ==
    IsTick(last) =>
        /\ (Completed(last) /\ last.drained = StateMsg("need_config")) =>
               /\ state = "need_config"
               /\ Count(last.out, RequestDefaultConfig) = 1
        /\ last.drained # StateMsg("need_config") =>
               ~Has(last.out, RequestDefaultConfig)

(* the probe and then the config request leave in the same tick *)
C3_Witness ==
    /\ IsTick(last) /\ Completed(last)
    /\ last.drained = StateMsg("need_config")
    /\ last.out = <<RequestState, RequestDefaultConfig>>
    /\ state = "need_config"

(* C4: a tick that drains defaultConfig{config: X} and returns Ok has queued
   setConfig{config: X}, and no other setConfig, exactly when the label was
   need_config; with any other label no setConfig is sent; the label is the
   same after the tick. *)
C4_DefaultConfigEchoed ==
    [][ (IsTick(last') /\ IsDefaultConfig(last'.drained)) =>
           /\ state' = state
           /\ state # "need_config" => SetConfigs(last'.out) = <<>>
           /\ (state = "need_config" /\ Completed(last')) =>
                  SetConfigs(last'.out) = <<SetConfig(last'.drained.config)>> ]_vars

C4_Witness ==
    /\ IsTick(last) /\ Completed(last)
    /\ last.drained = DefaultConfigMsg("cfgB")
    /\ last.out = <<SetConfig("cfgB")>>
    /\ state = "need_config"

(* C5 as claimed: on every tick whose probe send does not fail, a requestState
   probe is sent and the last-probe time becomes the current time if and only
   if the label at the start of the tick is not ready and at least 500 ms have
   elapsed since the last probe, exactly 500 ms included. *)
C5_ProbeAtLeastInterval ==
    [][ (IsTick(last') /\ last'.fault # "probe") =>
           ((Has(last'.out, RequestState) /\ last_state_millis' = now)
               <=> (state # "ready" /\ now - last_state_millis >= ProbeIntervalMillis))
       ]_vars

(* C5 amended: on every tick whose probe send does not fail, exactly one
   requestState probe is sent, first, and the last-probe time becomes the
   current time if and only if the label at the start of the tick is not ready
   and strictly more than 500 ms have elapsed since the last probe; otherwise
   no probe is sent and the last-probe time is unchanged, whether or not a
   message is pending. *)
C5_ProbeAfterInterval ==
    [][ (IsTick(last') /\ last'.fault # "probe") =>
           IF state # "ready" /\ now - last_state_millis > ProbeIntervalMillis
           THEN /\ Count(last'.out, RequestState) = 1
                /\ Head(last'.out) = RequestState
                /\ last_state_millis' = now
           ELSE /\ ~Has(last'.out, RequestState)
                /\ last_state_millis' = last_state_millis ]_vars

(* exactly 500 ms after the last probe, with the label not ready, the tick
   sends no probe *)
C5_Witness ==
    /\ IsTick(last) /\ Completed(last)
    /\ last.drained = NoMsg
    /\ state # "ready"
    /\ now - last_state_millis = ProbeIntervalMillis
    /\ last.out = <<>>

(* C6 as claimed: once the label equals ready, no step changes it. *)
C6_ReadyIsFinal == [][state = "ready" => state' = "ready"]_vars

(* C6 amended: the label leaves ready only when a tick drains a `state`
   report carrying another label, and then becomes that label; the worker
   never leaves ready on its own, and the readiness flag, once set, is never
   cleared. *)
C6_ReadyLeftOnlyByReport ==
    [][ /\ (state = "ready" /\ state' # "ready") =>
               (IsTick(last') /\ last'.drained = StateMsg(state'))
        /\ is_ready => is_ready' ]_vars

(* the remote reported need_config after readiness was announced *)
C6_Witness ==
    /\ IsTick(last)
    /\ last.drained = StateMsg("need_config")
    /\ is_ready /\ announced = 1
    /\ state = "need_config"

(* C7: a tick drains nothing but the head of the inbound channel; a tick that
   returns Ok hands the drained message to the handler exactly once and
   unchanged, whatever its kind, before anything else; no call hands the
   handler a raw message it did not drain, or one twice; and only a tick takes
   from the channel, so the handler sees the raw messages in the order the
   relay delivered them. *)
C7_ForwardedOnceInOrder ==
    [][ /\ IsTick(last') =>
               /\ last'.drained # NoMsg =>
                      (chan # <<>> /\ last'.drained = Head(chan) /\ chan' = Tail(chan))
               /\ last'.drained = NoMsg => (chan' = chan /\ last'.up = <<>>)
               /\ (Completed(last') /\ chan # <<>>) =>
                      (Raw(last'.up) = <<Head(chan)>> /\ Head(last'.up) = Head(chan))
               /\ Raw(last'.up) \in {<<>>, <<last'.drained>>}
        /\ ~IsTick(last') =>
               /\ last'.up = <<>>
               /\ chan' = chan \/ \E m \in InboundMsgs : chan' = Append(chan, m) ]_vars

(* an ignored control message is forwarded while another message waits *)
C7_Witness ==
    /\ IsTick(last) /\ Completed(last)
    /\ last.drained = RequestState
    /\ last.up = <<RequestState>>
    /\ chan # <<>>

(* C8 as claimed: a tick made with no message pending and less than 500 ms
   since the last probe, in which nothing fails, sends nothing, hands the
   handler nothing, leaves label, flag and last-probe time alone and returns
   false. *)
C8_IdleTickReturnsFalse ==
    [][ (IsTick(last') /\ last'.fault = "none" /\ chan = <<>>
            /\ now - last_state_millis < ProbeIntervalMillis) =>
           /\ last'.out = <<>> /\ last'.up = <<>>
           /\ UNCHANGED <<state, is_ready, last_state_millis, chan, announced>>
           /\ last'.res = "ok_false" ]_vars

(* C8 amended: such a tick sends nothing, hands the handler nothing and leaves
   label, flag, last-probe time and channel alone; it returns false when the
   relay's own tick reports no work, true when the relay's tick reports work,
   and the relay's error when the relay's tick fails. *)
C8_IdleTickNoEffect ==
    [][ (IsTick(last') /\ chan = <<>>
            /\ now - last_state_millis < ProbeIntervalMillis) =>
           /\ last'.out = <<>> /\ last'.up = <<>>
           /\ UNCHANGED <<state, is_ready, last_state_millis, chan, announced>>
           /\ last'.res = IF last'.fault # "none" THEN "err"
                          ELSE IF last'.relay THEN "ok_true" ELSE "ok_false"
           /\ last'.fault \in {"none", "relay"} ]_vars

C8_Witness ==
    /\ IsTick(last)
    /\ last.res = "ok_false"
    /\ chan = <<>>
    /\ state = "need_config"
    /\ now - last_state_millis < ProbeIntervalMillis
    /\ now - last_state_millis > 0
    /\ last.out = <<>> /\ last.up = <<>>

(* C9 as claimed: a tick that starts with the label ready and leaves it
   ready, and also the tick that drains the `state: ready` report, sends no
   requestState, no requestDefaultConfig and no setConfig. *)
C9_NoControlOnceReady ==
    [][ (IsTick(last') /\ state' = "ready"
            /\ (state = "ready" \/ last'.drained = StateMsg("ready"))) =>
           last'.out = <<>> ]_vars

(* C9 amended: a tick that starts with the label ready and leaves it ready
   sends nothing, whatever it drains and however much time has elapsed; the
   tick that drains the `state: ready` report sends no requestDefaultConfig
   and no setConfig, but it still sends the requestState probe when the label
   at its start was not ready and more than 500 ms had elapsed. *)
C9_NoControlWhileReady ==
    [][ IsTick(last') =>
           /\ (state = "ready" /\ state' = "ready") => last'.out = <<>>
           /\ last'.drained = StateMsg("ready") =>
                  last'.out =
                      IF state # "ready" /\ now - last_state_millis > ProbeIntervalMillis
                         /\ last'.fault # "probe"
                      THEN <<RequestState>> ELSE <<>> ]_vars

(* long after the last probe, with the label ready, a defaultConfig report is
   drained and nothing is sent *)
C9_Witness ==
    /\ IsTick(last) /\ Completed(last)
    /\ IsDefaultConfig(last.drained)
    /\ state = "ready" /\ is_ready
    /\ now - last_state_millis > ProbeIntervalMillis
    /\ last.out = <<>>

(* a probe is due: the label is not ready and more than the interval has
   passed since the last probe *)
ProbeDue == alive /\ state # "ready" /\ now - last_state_millis > ProbeIntervalMillis

ProbeSent == IsTick(last) /\ Has(last.out, RequestState) /\ last_state_millis = now

(* C10: while the owner keeps ticking, time advances, no send fails and the
   label never becomes ready, every time a probe falls due a requestState is
   sent, so probes recur for as long as time advances; a probe is never sent
   less than 500 ms after the previous one; and no tick returns an error,
   however long the remote stays silent. *)
C10_ProbeRecurs ==
    /\ ProbeDue ~> ProbeSent
    /\ [][ (IsTick(last') /\ Has(last'.out, RequestState)) =>
              now - last_state_millis >= ProbeIntervalMillis ]_vars
    /\ [](IsTick(last) => Completed(last))

(* the second probe: the label was set by an earlier tick, which probed, and
   this tick, 501 ms after the start, probes again without any inbound
   message *)
C10_Witness ==
    /\ ProbeSent
    /\ now = StartMillis + ProbeIntervalMillis + 1
    /\ last.drained = NoMsg
    /\ last.out = <<RequestState>>
    /\ state = "need_config"

ConfigRequested == IsTick(last) /\ Has(last.out, RequestDefaultConfig)

(* C11 as claimed: once requestDefaultConfig has been sent (the label is
   need_config) and no defaultConfig report ever arrives, then, as the owner
   keeps ticking and the probe interval elapses, the worker sends
   requestDefaultConfig again, and no tick returns an error. *)
C11_ConfigRequestRecurs ==
    /\ (state = "need_config" /\ ProbeDue) ~> ConfigRequested
    /\ [](IsTick(last) => Completed(last))

(* C11 amended: with no defaultConfig report arriving, what the timer re-sends
   is the requestState probe; requestDefaultConfig is sent again, once, by
   each tick that drains a further `state: need_config` report, and by no
   other tick; no tick returns an error. *)
C11_ConfigRequestOnlyOnReport ==
    /\ [][ (IsTick(last') /\ Has(last'.out, RequestDefaultConfig)) =>
              /\ last'.drained = StateMsg("need_config")
              /\ Count(last'.out, RequestDefaultConfig) = 1 ]_vars
    /\ (chan # <<>> /\ Head(chan) = StateMsg("need_config")) ~> ConfigRequested
    /\ (state = "need_config" /\ ProbeDue) ~> ProbeSent
    /\ [](IsTick(last) => Completed(last))

(* the label is already need_config, no probe is due, and a further
   need_config report makes the tick ask for the default config again *)
C11_Witness ==
    /\ ConfigRequested
    /\ last.drained = StateMsg("need_config")
    /\ last.out = <<RequestDefaultConfig>>
    /\ state = "need_config"
    /\ last_state_millis = StartMillis
    /\ now = StartMillis + ProbeIntervalMillis

(* C12: with a cooperative remote, an owner that keeps calling tick, fair
   delivery and no transport or handler failure, the worker started with the
   label undefined eventually hands the handler the readiness event, and from
   then on stays ready; no tick of such a run returns an error. *)
C12_EventuallyReady ==
    /\ <>[](state = "ready" /\ is_ready /\ announced = 1)
    /\ [](IsTick(last) => Completed(last))

(* the remote was configured by the worker's setConfig, and the tick that
   drained its ready report announced readiness *)
C12_Witness ==
    /\ IsTick(last) /\ Completed(last)
    /\ last.up = <<StateMsg("ready"), P2pReady>>
    /\ remote = "ready"
    /\ state = "ready" /\ announced = 1

(* the steps of a call that go through the relay *)
RelayFaults == {"send", "probe", "ctrl", "relay", "stop"}

(* C13: a relay failure during receive, during tick (the probe send, the
   requestDefaultConfig or setConfig send, the relay's own tick) or during
   stop is returned to the caller as an error, and the failed call has not
   sent the message whose send failed; no call sends a message twice, and a
   call sends only what its own conditions call for (the probe when it is due,
   requestDefaultConfig for a drained `state: need_config`, setConfig for a
   drained defaultConfig under need_config, the argument of receive), so a
   later tick does not make up for an earlier failed send. *)
C13_FailureReturnedNotRetried ==
    [][ /\ last'.fault \in RelayFaults => last'.res = "err"
        /\ last'.res = "err" => last'.fault # "none"
        /\ last'.fault = "send" =>
               /\ last'.op = "receive" /\ last'.out = <<>>
               /\ UNCHANGED <<state, is_ready, last_state_millis, chan, announced>>
        /\ last'.fault = "probe" =>
               /\ IsTick(last') /\ last'.out = <<>> /\ last'.up = <<>>
               /\ UNCHANGED <<state, is_ready, last_state_millis, chan, announced>>
        /\ last'.fault = "relay" =>
               /\ IsTick(last') /\ last'.up = <<>>
               /\ UNCHANGED <<state, is_ready, chan, announced>>
        /\ last'.fault = "ctrl" =>
               /\ IsTick(last')
               /\ ~Has(last'.out, RequestDefaultConfig)
               /\ SetConfigs(last'.out) = <<>>
        /\ last'.fault = "stop" => (last'.op = "stop" /\ ~alive')
        /\ \A i \in 1..Len(last'.out) :
               /\ Count(last'.out, last'.out[i]) = 1
               /\ IF last'.op = "receive" THEN last'.out[i] = last'.arg
                  ELSE /\ IsTick(last')
                       /\ last'.out[i] = RequestState =>
                              (state # "ready"
                                  /\ now - last_state_millis > ProbeIntervalMillis)
                       /\ last'.out[i] = RequestDefaultConfig =>
                              last'.drained = StateMsg("need_config")
                       /\ last'.out[i].method = "setConfig" =>
                              /\ state = "need_config"
                              /\ last'.drained = DefaultConfigMsg(last'.out[i].config)
                       /\ last'.out[i].method \in
                              {"requestState", "requestDefaultConfig", "setConfig"} ]_vars

(* the setConfig send failed after the probe of the same tick went out: the
   tick returned the error, the defaultConfig report is consumed, and setConfig
   was not sent *)
C13_Witness ==
    /\ IsTick(last) /\ last.res = "err" /\ last.fault = "ctrl"
    /\ IsDefaultConfig(last.drained)
    /\ last.out = <<RequestState>>
    /\ state = "need_config"

(* what the claim calls a valid config: the transport type is the string zmq
   and the endpoint URI is a string *)
ValidConfig(cfg) ==
    cfg.parses /\ cfg.socketType = JStr("zmq") /\ cfg.ipcUri.t = "string"

(* C14 as claimed: construction fails with a configuration error, with the
   factory not invoked and no socket created, whenever the transport type is
   missing or is not zmq or the URI is missing or is not a string; and when
   both are valid the worker is created, with the label undefined, the
   readiness flag false and the last-probe time 0. *)
C14_ValidConfigCreates ==
    made # NotMade =>
        IF ValidConfig(config)
        THEN /\ made.res = "ok"
             /\ state = "undefined" /\ ~is_ready /\ last_state_millis = 0
        ELSE made.res = "err" /\ ~made.factory /\ made.socket = "none"

(* C14 amended: with a parsable config whose transport type is missing or is
   not zmq, or whose URI is missing or is not a string, construction fails
   with a configuration error, the factory not invoked and no socket created
   (an unparsable config fails with the parse error, equally before the
   factory).  When both are valid the factory is invoked with that URI and
   with blockConnect when it is a boolean, false otherwise; if the factory
   succeeds the worker is created with the label undefined, the readiness flag
   false and the last-probe time 0; if creating or connecting the socket or
   creating the client fails, construction returns that transport error and no
   worker is created. *)
C14_ValidConfigInvokesFactory ==
    made # NotMade =>
        IF ValidConfig(config)
        THEN /\ made.factory
             /\ made.uri = config.ipcUri.v
             /\ made.block_connect = IF config.blockConnect.t = "bool"
                                      THEN config.blockConnect.v ELSE "false"
             /\ made.res \in {"ok", "err"}
             /\ made.res = "ok" =>
                    /\ alive /\ made.socket = "connected"
                    /\ state = "undefined" /\ ~is_ready /\ last_state_millis = 0
             /\ made.res = "err" => (made.kind = "transport" /\ ~alive)
        ELSE /\ made.res = "err" /\ ~alive
             /\ made.kind = IF config.parses THEN "config" ELSE "parse"
             /\ ~made.factory /\ made.socket = "none"

(* the transport type is right and the URI is a number: the configuration
   error, with the factory never run *)
C14_Witness ==
    /\ made = ConfigError
    /\ config.socketType = JStr("zmq")
    /\ config.ipcUri = JNum
    /\ ~alive

(* C15: a receive that returns Ok has handed exactly its argument, unchanged
   and alone, to the relay, where it joins the outbound stream behind
   everything sent before it, so successive receives reach the relay in call
   order; and receive, whether it fails or not, leaves the label, the readiness
   flag and the last-probe time alone, takes nothing from the inbound channel
   and does not invoke the handler. *)
C15_ReceiveForwardsOnly ==
    [][ last'.op = "receive" =>
           /\ UNCHANGED <<state, is_ready, last_state_millis, chan, announced>>
           /\ last'.up = <<>> /\ last'.drained = NoMsg
           /\ wire' = wire \o last'.out
           /\ last'.out = IF Completed(last') THEN <<last'.arg>> ELSE <<>> ]_vars

(* two receives in a row while an inbound message waits: both messages are in
   the outbound stream in call order and the inbound message is still
   pending *)
C15_Witness ==
    /\ last.op = "receive" /\ Completed(last)
    /\ last.arg = Pong
    /\ wire = <<AppJson, Pong>>
    /\ chan # <<>>
    /\ state = "undefined"

(* the place of method m in firsts, 0 when it was never sent *)
Place(m) == IF Has(firsts, m) THEN CHOOSE i \in 1..Len(firsts) : firsts[i] = m ELSE 0

(* C16 as claimed: once a tick of a fresh worker has returned, a requestState
   probe has been sent; on the outbound side a requestState always precedes the
   first requestDefaultConfig, and the first requestDefaultConfig always
   precedes the first setConfig. *)
C16_ProbeConfigSetOrder ==
    /\ (IsTick(last) /\ Completed(last)) => Place("requestState") > 0
    /\ Place("requestDefaultConfig") > 0 =>
           (Place("requestState") > 0
               /\ Place("requestState") < Place("requestDefaultConfig"))
    /\ Place("setConfig") > 0 =>
           (Place("requestDefaultConfig") > 0
               /\ Place("requestDefaultConfig") < Place("setConfig"))

(* C16 amended: the first tick of a fresh worker that does not fail sends the
   requestState probe first, and until a probe has been sent no tick sends or
   drains anything, so requestState precedes the first requestDefaultConfig
   and the first setConfig; the first setConfig is preceded by the first
   attempt to send requestDefaultConfig, which precedes it on the outbound
   side only if that send did not fail: the label is need_config from the
   attempt on, and a defaultConfig report then triggers setConfig. *)
C16_ProbeFirstThenAttempt ==
    /\ firsts # <<>> => Head(firsts) = "requestState"
    /\ (IsTick(last) /\ Completed(last)) => firsts # <<>>
    /\ firsts = <<>> <=> last_state_millis = 0
    /\ firsts = <<>> => (state = "undefined" /\ announced = 0)
    /\ Place("setConfig") > 0 =>
           \/ (Place("requestDefaultConfig") > 0
                  /\ Place("requestDefaultConfig") < Place("setConfig"))
           \/ (Place("requestDefaultConfig failed") > 0
                  /\ Place("requestDefaultConfig failed") < Place("setConfig"))

(* the send of requestDefaultConfig failed, and setConfig went out without
   one *)
C16_Witness ==
    /\ firsts = <<"requestState", "requestDefaultConfig failed", "setConfig">>
    /\ IsTick(last) /\ Completed(last)
    /\ IsDefaultConfig(last.drained)
    /\ last.out = <<SetConfig(last.drained.config)>>

(* C17: a tick takes at most one message from the inbound channel, the head,
   however many are pending, and invokes the handler at most twice: once with
   the raw message and at most once with the readiness event; every tick that
   gets as far as the channel takes its head when one is pending, so the
   messages left behind are drained one per tick; and a tick that drained a
   message and returns Ok returns true. *)
C17_OneMessagePerTick ==
    [][ IsTick(last') =>
           /\ chan' = chan \/ (chan # <<>> /\ chan' = Tail(chan))
           /\ (chan' # chan) <=> (last'.drained # NoMsg)
           /\ (chan # <<>> /\ last'.fault \notin {"probe", "relay"}) =>
                  (last'.drained = Head(chan) /\ chan' = Tail(chan))
           /\ Len(last'.up) <= 2
           /\ Len(Raw(last'.up)) <= 1
           /\ Count(last'.up, P2pReady) <= 1
           /\ (last'.drained # NoMsg /\ Completed(last')) => last'.res = "ok_true" ]_vars

(* two handler calls in one tick while another message stays pending, and the
   tick returns true although the relay reported no work of its own *)
C17_Witness ==
    /\ IsTick(last) /\ last.res = "ok_true" /\ ~last.relay
    /\ Len(last.up) = 2
    /\ last.drained = StateMsg("ready")
    /\ chan # <<>>

IsStateReport(m) == m.kind = "json" /\ m.method = "state"

(* C18: the label changes only when a tick drains a `state` report, and then
   it is exactly the reported label; receive, idle ticks, the probe, and ticks
   that drain a defaultConfig, requestState, requestDefaultConfig or setConfig
   message, a pong or other JSON leave it alone; and what a tick sends is the
   probe, when it is due, followed by requestDefaultConfig for a drained
   `state: need_config` or setConfig for a defaultConfig drained under
   need_config, and by nothing for any other drained message. *)
C18_LabelSetOnlyByReport ==
    [][ /\ state' # state => (IsTick(last') /\ IsStateReport(last'.drained))
        /\ (IsTick(last') /\ IsStateReport(last'.drained)) =>
               state' = last'.drained.state
        /\ IsTick(last') =>
               last'.out =
                   (IF state # "ready" /\ now - last_state_millis > ProbeIntervalMillis
                       /\ last'.fault # "probe"
                    THEN <<RequestState>> ELSE <<>>)
                   \o
                   (IF last'.fault = "ctrl" THEN <<>>
                    ELSE IF last'.drained = StateMsg("need_config")
                         THEN <<RequestDefaultConfig>>
                    ELSE IF IsDefaultConfig(last'.drained) /\ state = "need_config"
                         THEN <<SetConfig(last'.drained.config)>>
                    ELSE <<>>) ]_vars

(* a setConfig message comes back at the worker while the label is
   need_config: it is handed to the handler, nothing is sent, the label
   stays *)
C18_Witness ==
    /\ IsTick(last) /\ Completed(last)
    /\ last.drained = SetConfig("cfgA")
    /\ last.up = <<SetConfig("cfgA")>>
    /\ last.out = <<>>
    /\ state = "need_config"

(* C19: a tick in which the send triggered by the drained control message
   fails (requestDefaultConfig for `state: need_config`, setConfig for a
   defaultConfig under need_config) returns the error with the message already
   taken from the channel and, for the state report, the label already
   need_config; the handler is not invoked in that tick, and since a tick hands
   the handler only the message it takes from the channel itself, no later tick
   delivers the lost message. *)
C19_FailedControlSendDropsMessage ==
    [][ /\ (IsTick(last') /\ last'.fault = "ctrl") =>
               /\ last'.res = "err"
               /\ chan # <<>> /\ last'.drained = Head(chan) /\ chan' = Tail(chan)
               /\ last'.up = <<>>
               /\ \/ last'.drained = StateMsg("need_config") /\ state' = "need_config"
                  \/ IsDefaultConfig(last'.drained) /\ state = "need_config"
                         /\ state' = state
               /\ ~Has(last'.out, RequestDefaultConfig) /\ SetConfigs(last'.out) = <<>>
               /\ UNCHANGED <<is_ready, announced>>
        /\ IsTick(last') =>
               \/ Raw(last'.up) = <<>>
               \/ chan # <<>> /\ Raw(last'.up) = <<Head(chan)>> /\ chan' = Tail(chan)
        /\ ~IsTick(last') => last'.up = <<>> ]_vars

(* the state report is consumed and the label set, the handler saw nothing,
   and nothing is left in the channel for a later tick *)
C19_Witness ==
    /\ IsTick(last) /\ last.res = "err" /\ last.fault = "ctrl"
    /\ last.drained = StateMsg("need_config")
    /\ state = "need_config"
    /\ last.up = <<>>
    /\ chan = <<>>

(* the results recorded in the global state for the action of future i *)
Recorded(i) ==
    IF ctx_state.some
    THEN {e.res : e \in {x \in ctx_state.actions : x.key = futs[i].action}}
    ELSE {}

(* C20: after remove_entry has dispatched its action, a poll of the future
   returns Pending while the global state is unavailable or holds no result
   for that action, Ready when it holds Ok, and the recorded error when it
   holds an error; a poll leaves the global state and the action channel as
   they are and asks to be woken again every time; so under any interleaving
   with the reducer a future is resolved only with a result that is recorded
   for its own action, and the first poll after the result is recorded
   resolves with it. *)
C20_PollFollowsRecordedResult ==
    /\ [][ polled'.n # polled.n =>
              /\ polled'.fut \in 1..Len(futs) /\ futs[polled'.fut].resolved = "no"
              /\ polled'.res =
                     IF Recorded(polled'.fut) = {} THEN "pending"
                     ELSE IF Recorded(polled'.fut) = {"ok"} THEN "ready"
                     ELSE CHOOSE e \in Recorded(polled'.fut) : TRUE
              /\ UNCHANGED <<ctx_state, channel>>
              /\ polled'.wakes = polled.wakes + 1 ]_vars
    /\ [](\A i \in 1..Len(futs) :
              /\ (\E k \in 1..Len(channel) : channel[k] = futs[i].action)
                     => Recorded(i) = {}
              /\ futs[i].resolved # "no" =>
                     Recorded(i) = {IF futs[i].resolved = "ready" THEN "ok"
                                    ELSE futs[i].resolved})
    /\ [](polled.wakes = polled.n)

(* the second future has resolved with its recorded error after an earlier
   poll, while the first future is still unresolved *)
C20_Witness ==
    /\ polled.fut = 2 /\ polled.res = "errB" /\ polled.n >= 2
    /\ Len(futs) = 2
    /\ futs[2].resolved = "errB"
    /\ futs[1].resolved = "no"
    /\ Recorded(2) = {"errB"}

====
